---- MODULE Spec2Model ----
(***************************************************************************)
(* Model of PNNDataReader.get_batches                                      *)
(* (RecommenderSystems/pnn/pnn_train_eval.py): the generator that re-chunks *)
(* the row groups of a petastorm reader into batches of batch_size rows,   *)
(* carrying the leftover rows of a row group (the tail) into the next one. *)
(*                                                                         *)
(* A row group is the list rglist of num_fields columns, each column a     *)
(* one-dimensional array.  The value stored in row r (from 1) of column c  *)
(* (from 1, column 1 is Label) of the g-th row group is the triple         *)
(* <<g, r, c>>, so that every value of the stream is distinct and the      *)
(* position of each value in the output tells where it came from.          *)
(***************************************************************************)
EXTENDS Integers, Sequences, FiniteSets, TLC

(* ------------------------------ bounds ------------------------------- *)
MaxBatch == 4        \* batch_size ranges over 1..MaxBatch
MaxRows == 6         \* short row groups have 0..MaxRows rows
MaxGroups == 3       \* the reader delivers at most MaxGroups row groups
MaxTrain == 3        \* args.train_batches ranges over 0..MaxTrain
MaxInterval == 2     \* args.eval_interval ranges over -1..MaxInterval
MaxEvalBatches == 2  \* args.eval_batches ranges over 0..MaxEvalBatches
MaxStream == 3       \* a loader yields 0..MaxStream batches before it ends
MaxWorld == 3        \* world size and shard count range over 1..MaxWorld
MaxGlobalBatch == 6  \* the global batch size ranges over 1..MaxGlobalBatch
MaxReplayGroups == 2 \* a stream run through two generators has at most this many row groups

(* ------------------------- program constants ------------------------- *)
num_dense_fields == 13
num_sparse_fields == 26

\* self.fields: "Label", I1..I13, C1..C26; field c is column c of rglist
fields == 1 .. (1 + num_dense_fields + num_sparse_fields)

\* self.num_fields = len(fields)
num_fields == Cardinality(fields)

\* tail = None
None == << >>

VARIABLES
    batch_size,   \* the batch_size the generator runs with
    lens,         \* row counts of the row groups pulled from the reader so far
    rglist,       \* columns of the row group being processed
    pos,          \* read cursor into the current row group (0-based)
    tail,         \* None, or the carried-over rows, one array per column
    emitted,      \* the batches yielded so far, in order
    pc,           \* "pull" (at the for statement), "loop" (at the while
                  \* statement), "done" (StopIteration), "error" (raised)
    error,        \* "none", or the exception the generator raised
    atPull,       \* tail length and number of yielded batches when the
                  \* current row group was pulled
    run,          \* 1 for the first generator over the stream, 2 for a
                  \* second, fresh generator over the same stream
    prev,         \* what the first generator was given and what it yielded
    bad,          \* 0, or the number of the first row group whose columns
                  \* do not all have the same length
    call,         \* arguments of the last make_criteo_dataloader or
                  \* PNNDataReader call, or NoCall
    dl,           \* the PNNDataReader object made by that call, or NoReader
    args,         \* train_batches, eval_interval, eval_batches of train(args)
    rank,         \* flow.env.get_rank()
    tloader,      \* the training loader: batches it still yields, and the
                  \* exception that ends it
    eloader,      \* the same for the loader of the test data, with the
                  \* number n of batches it yields each time it is opened
    tpc,          \* control position in train and eval
    ret,          \* where the running eval returns to: "for" or "returned"
    exc,          \* the exception in flight, or "none"
    step,         \* step of train
    num_eval_batches,  \* num_eval_batches of the running eval
    labels,       \* len(labels) of the running eval
    evals,        \* cur_step of every call of eval, in order
    pulled,       \* batches taken from the loaders, by train and by eval
    graphed,      \* train_graph and eval_graph runs
    tlog,         \* calls made on the reader of the training loader
    elog          \* calls made on the reader of the running or last eval

\* the local state of one get_batches generator
genvars == <<batch_size, lens, rglist, pos, tail, emitted, pc, error, atPull>>

\* what the steps of the generator leave alone
envvars == <<run, prev, bad, call, dl, args, rank, tloader, eloader, tpc, ret,
             exc, step, num_eval_batches, labels, evals, pulled, graphed,
             tlog, elog>>

\* the state of make_criteo_dataloader and PNNDataReader construction
loadervars == <<call, dl>>

\* the state of train and eval
trainvars == <<args, rank, tloader, eloader, tpc, ret, exc, step,
               num_eval_batches, labels, evals, pulled, graphed, tlog, elog>>

\* no call made yet, no PNNDataReader object yet
NoCall == [fn |-> "none"]
NoReader == [state |-> "none"]

vars == <<genvars, envvars>>

(* ----------------------- numpy / Python helpers ---------------------- *)
Min(a, b) == IF a <= b THEN a ELSE b

\* s[a:b] of a Python list or numpy array, for 0 <= a and 0 <= b
PySlice(s, a, b) == SubSeq(s, a + 1, Min(b, Len(s)))

\* np.stack(arrays, axis=-1) raises ValueError on an empty list and on
\* arrays of different shapes
StackRaises(arrays) ==
    \/ arrays = << >>
    \/ \E i, j \in 1 .. Len(arrays) : Len(arrays[i]) # Len(arrays[j])

\* np.stack(arrays, axis=-1) of k one-dimensional arrays of length n:
\* an array of shape [n, k] whose entry [r, j] is arrays[j][r]
Stack(arrays) ==
    [shape |-> <<Len(arrays[1]), Len(arrays)>>,
     data  |-> [r \in 1 .. Len(arrays[1]) |->
                   [j \in 1 .. Len(arrays) |-> arrays[j][r]]]]

\* rglist = [rgdict[field] for field in self.fields] of the g-th row group
\* of the stream, holding n rows
RowGroup(g, n) == [c \in fields |-> [r \in 1 .. n |-> <<g, r, c>>]]

\* the label/features pair handed to the consumer by a yield
Batch(label, features) == [label |-> label, features |-> Stack(features)]

(* --------------------------- get_batches ----------------------------- *)
\* the tail merged only with a row group long enough to complete it
MergeTailIfComplete(tl, rl, bs) ==
    IF Len(rl[1]) >= bs - Len(tl[1])
    THEN [i \in 1 .. num_fields |->
             tl[i] \o PySlice(rl[i], 0, bs - Len(tl[i]))]
    ELSE tl

\* line 148: the tail extended by the rows of the row group that complete it
MergeTail(tl, rl, bs) ==
    [i \in 1 .. num_fields |-> tl[i] \o PySlice(rl[i], 0, bs - Len(tl[i]))]

\* the while condition with a strict comparison
LoopCondStrict(p, bs, rl) == (p + bs) < Len(rl[1])

\* line 161: the condition of the while statement
LoopCond(p, bs, rl) == (p + bs) <= Len(rl[1])

\* line 162
SliceLabel(rl, p, bs) == PySlice(rl[1], p, p + bs)

\* line 163: rglist[1:] is the list of feature columns, and the slice is
\* taken of that list
SliceFeatures(rl, p, bs) == PySlice(Tail(rl), p, p + bs)

\* the new tail taken from one row past the cursor
NewTailPastCursor(rl, p) ==
    [i \in 1 .. num_fields |-> PySlice(rl[i], p + 1, Len(rl[i]))]

\* line 168
NewTail(rl, p) == [i \in 1 .. num_fields |-> PySlice(rl[i], p, Len(rl[i]))]

\* train(args) not started: line 664 and the locals of eval
InitTrainLocals ==
    /\ tpc = "start"
    /\ ret = "none"
    /\ exc = "none"
    /\ step = -1
    /\ num_eval_batches = 0
    /\ labels = 0
    /\ evals = << >>
    /\ pulled = [train |-> 0, eval |-> 0]
    /\ graphed = [train |-> 0, eval |-> 0]
    /\ tlog = << >>
    /\ elog = << >>

\* no dataloader built, train not running
InitIdle ==
    /\ call = NoCall
    /\ dl = NoReader
    /\ args = [train_batches |-> 0, eval_interval |-> 0, eval_batches |-> 0]
    /\ rank = 0
    /\ tloader = [left |-> 0, end |-> "StopIteration"]
    /\ eloader = [n |-> 0, left |-> 0, end |-> "StopIteration"]
    /\ InitTrainLocals

\* the locals of a get_batches generator that has not run yet
InitGen ==
    /\ lens = << >>
    /\ rglist = << >>
    /\ pos = 0
    /\ tail = None
    /\ emitted = << >>
    /\ pc = "pull"
    /\ error = "none"
    /\ atPull = [tail |-> 0, emitted |-> 0]
    /\ run = 1
    /\ prev = [lens |-> << >>, emitted |-> << >>, error |-> "none"]
    /\ bad = 0

Init ==
    /\ batch_size \in 1 .. MaxBatch
    /\ InitGen
    /\ InitIdle

\* yield label, np.stack(features, axis=-1), then resume at nextpc
\* (the singleton quantifiers name the values of label, features and the
\* stacked batch, each computed once)
Yield(label, features, nextpc) ==
    \E l \in {label}, f \in {features} :
        IF StackRaises(f)
        THEN /\ pc' = "error"
             /\ error' = "ValueError"
             /\ UNCHANGED emitted
        ELSE /\ pc' = nextpc
             /\ \E b \in {Batch(l, f)} : emitted' = Append(emitted, b)
             /\ UNCHANGED error

\* lines 140-159: the reader delivers the row group with columns rl; an
\* existing tail is completed from it and yielded, or stays short
PullRows(rl) ==
    /\ pc = "pull"
    /\ Len(lens) < MaxGroups
    /\ lens' = Append(lens, Len(rl[1]))
    /\ rglist' = rl
    /\ atPull' = [tail |-> IF tail = None THEN 0 ELSE Len(tail[1]),
                  emitted |-> Len(emitted)]
    /\ IF tail # None
       THEN \E merged \in {MergeTail(tail, rglist', batch_size)} :
                IF Len(merged[1]) = batch_size
                THEN /\ pos' = batch_size - Len(tail[1])
                     /\ tail' = None
                     /\ Yield(merged[1], Tail(merged), "loop")
                ELSE /\ tail' = merged
                     /\ pos' = 0
                     /\ UNCHANGED <<pc, emitted, error>>
       ELSE /\ pos' = 0
            /\ pc' = "loop"
            /\ UNCHANGED <<tail, emitted, error>>
    /\ UNCHANGED batch_size

\* lines 140-159 on a well-formed row group of n rows
Pull(n) ==
    /\ PullRows(RowGroup(Len(lens) + 1, n))
    /\ UNCHANGED envvars

\* lines 161-165: one iteration of the while statement
Slice ==
    /\ pc = "loop"
    /\ LoopCond(pos, batch_size, rglist)
    /\ pos' = pos + batch_size
    /\ Yield(SliceLabel(rglist, pos, batch_size),
             SliceFeatures(rglist, pos, batch_size), "loop")
    /\ UNCHANGED <<batch_size, lens, rglist, tail, atPull>>
    /\ UNCHANGED envvars

\* the rest of the row group stored as the tail even when it is empty
EndGroupAlwaysTail ==
    /\ pc = "loop"
    /\ ~LoopCond(pos, batch_size, rglist)
    /\ tail' = NewTail(rglist, pos)
    /\ pc' = "pull"
    /\ UNCHANGED <<batch_size, lens, rglist, pos, emitted, error, atPull>>
    /\ UNCHANGED envvars

\* lines 167-168: the while statement ends, the rest of the row group
\* becomes the tail
EndGroup ==
    /\ pc = "loop"
    /\ ~LoopCond(pos, batch_size, rglist)
    /\ tail' = IF pos # Len(rglist[1]) THEN NewTail(rglist, pos) ELSE tail
    /\ pc' = "pull"
    /\ UNCHANGED <<batch_size, lens, rglist, pos, emitted, error, atPull>>
    /\ UNCHANGED envvars

\* the generator flushing the tail as a last batch without testing for None
ExhaustFlushTail ==
    /\ pc = "pull"
    /\ IF tail = None
       THEN /\ pc' = "error"
            /\ error' = "TypeError"
            /\ UNCHANGED emitted
       ELSE /\ pc' = "done"
            /\ emitted' = Append(emitted, Batch(tail[1], Tail(tail)))
            /\ UNCHANGED error
    /\ UNCHANGED <<batch_size, lens, rglist, pos, tail, atPull>>
    /\ UNCHANGED envvars

\* line 140: the reader is exhausted, the generator returns
Exhaust ==
    /\ pc = "pull"
    /\ pc' = "done"
    /\ UNCHANGED <<batch_size, lens, rglist, pos, tail, emitted, error, atPull>>
    /\ UNCHANGED envvars

\* the row counts the reader may deliver
RowCounts == (0 .. MaxRows) \cup {num_fields}

PullAny == \E n \in RowCounts : Pull(n)

Next == PullAny \/ Slice \/ EndGroup \/ Exhaust

Spec == Init /\ [][Next]_vars

(* ------------- two generators over the same row-group stream ---------- *)
\* a second call of get_batches that found the tail of the first one
RestartKeepTail ==
    /\ run = 1
    /\ pc \in {"done", "error"}
    /\ run' = 2
    /\ prev' = [lens |-> lens, emitted |-> emitted, error |-> error]
    /\ lens' = << >>
    /\ rglist' = << >>
    /\ pos' = 0
    /\ emitted' = << >>
    /\ pc' = "pull"
    /\ error' = "none"
    /\ atPull' = [tail |-> 0, emitted |-> 0]
    /\ UNCHANGED <<batch_size, tail, bad, loadervars, trainvars>>

\* lines 134-138: get_batches is called again on a reader that delivers
\* the same row groups; the new generator starts with its own tail = None
Restart ==
    /\ run = 1
    /\ pc \in {"done", "error"}
    /\ run' = 2
    /\ prev' = [lens |-> lens, emitted |-> emitted, error |-> error]
    /\ lens' = << >>
    /\ rglist' = << >>
    /\ pos' = 0
    /\ tail' = None
    /\ emitted' = << >>
    /\ pc' = "pull"
    /\ error' = "none"
    /\ atPull' = [tail |-> 0, emitted |-> 0]
    /\ UNCHANGED <<batch_size, bad, loadervars, trainvars>>

\* line 140, first generator: the reader delivers any row group, or ends
FirstPull == run = 1 /\ Len(lens) < MaxReplayGroups /\ PullAny
FirstExhaust == run = 1 /\ Exhaust

\* line 140, second generator: the reader delivers the row groups it
\* delivered to the first one (no shuffling), then ends
ReplayPull ==
    /\ run = 2
    /\ Len(lens) < Len(prev.lens)
    /\ Pull(prev.lens[Len(lens) + 1])

ReplayExhaust ==
    /\ run = 2
    /\ Len(lens) = Len(prev.lens)
    /\ Exhaust

NextTwice ==
    \/ FirstPull
    \/ FirstExhaust
    \/ Restart
    \/ ReplayPull
    \/ ReplayExhaust
    \/ Slice
    \/ EndGroup

SpecTwice == Init /\ [][NextTwice]_vars

(* ---------------- row groups with columns of unequal length ----------- *)
\* rglist of a row group whose Label column has nl rows, whose last
\* column has nk rows and whose other columns have nf rows
MalformedRowGroup(g, nl, nf, nk) ==
    [c \in fields |->
        [r \in 1 .. (IF c = 1 THEN nl ELSE IF c = num_fields THEN nk ELSE nf)
            |-> <<g, r, c>>]]

\* the column lengths tried for such a row group
MalformedLens == 0 .. MaxBatch

\* lines 140-159 on the first row group of the stream whose columns
\* differ in length
PullMalformed(nl, nf, nk) ==
    /\ bad = 0
    /\ ~(nl = nf /\ nf = nk)
    /\ PullRows(MalformedRowGroup(Len(lens) + 1, nl, nf, nk))
    /\ bad' = Len(lens) + 1
    /\ UNCHANGED <<run, prev, loadervars, trainvars>>

PullMalformedAny == \E nl, nf, nk \in MalformedLens : PullMalformed(nl, nf, nk)

\* line 140 while every row group so far was well formed
PullWellFormed == bad = 0 /\ PullAny

NextMalformed ==
    \/ PullWellFormed
    \/ PullMalformedAny
    \/ Slice
    \/ EndGroup
    \/ Exhaust

SpecMalformed == Init /\ [][NextMalformed]_vars

(* --------- make_criteo_dataloader and the PNNDataReader object -------- *)
\* lines 93-115: PNNDataReader.__init__ stores its arguments
PNNDataReader(bs, sc, cs) ==
    [state |-> "constructed", batch_size |-> bs, shard_count |-> sc,
     cur_shard |-> cs, num_fields |-> num_fields]

\* line 179: batch_size // world_size
BatchSizePerProc(bs, ws) == bs \div ws

\* lines 171-189: make_criteo_dataloader(data_path, batch_size) in process
\* rk of ws processes
MakeCriteoDataloader(bs, ws, rk) ==
    /\ dl.state = "none"
    /\ call' = [fn |-> "make_criteo_dataloader", batch_size |-> bs,
                world_size |-> ws, rank |-> rk]
    /\ dl' = PNNDataReader(BatchSizePerProc(bs, ws), ws, rk)
    /\ UNCHANGED <<genvars, run, prev, bad, trainvars>>

\* lines 93-115: PNNDataReader(files, bs, shard_count=sc, cur_shard=cs)
\* called directly
Construct(bs, sc, cs) ==
    /\ dl.state = "none"
    /\ call' = [fn |-> "PNNDataReader", batch_size |-> bs,
                shard_count |-> sc, cur_shard |-> cs]
    /\ dl' = PNNDataReader(bs, sc, cs)
    /\ UNCHANGED <<genvars, run, prev, bad, trainvars>>

\* the shard index of the object is one of its shards
ShardInRange(d) == 0 <= d.cur_shard /\ d.cur_shard < d.shard_count

\* lines 117-128: __enter__ starts the petastorm reader and makes the
\* generator, which will run with self.batch_size
Enter ==
    /\ dl.state = "constructed"
    /\ dl' = [dl EXCEPT !.state = "entered"]
    /\ batch_size' = dl.batch_size
    /\ UNCHANGED <<lens, rglist, pos, tail, emitted, pc, error, atPull>>
    /\ UNCHANGED <<run, prev, bad, call, trainvars>>

\* line 118: make_batch_reader is petastorm's; given a shard index that is
\* not one of the shards it may also raise
EnterRaises ==
    /\ dl.state = "constructed"
    /\ ~ShardInRange(dl)
    /\ dl' = [dl EXCEPT !.state = "enter raised"]
    /\ UNCHANGED <<genvars, run, prev, bad, call, trainvars>>

\* lines 130-132: __exit__
Leave ==
    /\ dl.state = "entered"
    /\ dl' = [dl EXCEPT !.state = "exited"]
    /\ UNCHANGED <<genvars, run, prev, bad, call, trainvars>>

MakeAny ==
    \E bs \in 1 .. MaxGlobalBatch, ws \in 1 .. MaxWorld :
        \E rk \in 0 .. (ws - 1) : MakeCriteoDataloader(bs, ws, rk)

ConstructAny ==
    \E bs \in 1 .. MaxBatch, sc \in 1 .. MaxWorld, cs \in -1 .. MaxWorld :
        Construct(bs, sc, cs)

InitLoader ==
    /\ batch_size = 0
    /\ InitGen
    /\ InitIdle

NextLoader == MakeAny \/ ConstructAny \/ Enter \/ EnterRaises \/ Leave

SpecLoader == InitLoader /\ [][NextLoader]_vars

(* --------------------------- train and eval --------------------------- *)
(* A loader is represented by what next(loader) gives: a number of        *)
(* batches, then StopIteration (the reader is exhausted) or the           *)
(* ValueError that get_batches raises on line 165.  The contents of the   *)
(* batches do not influence the control flow of train and eval.           *)

\* how a loader ends
Ends == {"StopIteration", "ValueError"}

\* the calls with the reader's stop and join in the wrong order
ExitCallsJoinFirst == <<"join", "stop">>

\* lines 131-132: the calls __exit__ makes on the reader
ExitCalls == <<"stop", "join">>

\* line 666: the value range(1, args.train_batches + 1) gives after st
NextStep(st) == IF st = -1 THEN 1 ELSE st + 1

\* line 680
EvalInLoop(st, interval) == interval > 0 /\ st % interval = 0

\* the test after the loop without the remainder test
EvalAfterLoopAlways(st, interval) == interval > 0

\* line 687
EvalAfterLoop(st, interval) == interval > 0 /\ st % interval # 0

\* where an exception raised in eval goes: into the with block of train
\* when eval was called from the loop, out of train otherwise
Propagate == IF ret = "for" THEN "exit" ELSE "raised"

InitTrain ==
    /\ batch_size = 0
    /\ InitGen
    /\ call = NoCall
    /\ dl = NoReader
    /\ args \in [train_batches : 0 .. MaxTrain,
                 eval_interval : -1 .. MaxInterval,
                 eval_batches  : 0 .. MaxEvalBatches]
    /\ rank \in 0 .. 1
    /\ tloader \in [left : 0 .. MaxStream, end : Ends]
    /\ eloader \in [n : 0 .. MaxStream, left : {0}, end : Ends]
    /\ InitTrainLocals

\* line 665: the with statement of train calls __enter__
TrainEnter ==
    /\ tpc = "start"
    /\ tlog' = <<"enter">>
    /\ tpc' = "for"
    /\ UNCHANGED <<genvars, run, prev, bad, loadervars>>
    /\ UNCHANGED <<args, rank, tloader, eloader, ret, exc, step,
                   num_eval_batches, labels, evals, pulled, graphed, elog>>

\* lines 666-680: one iteration of the training loop, up to the test that
\* decides whether eval is called
TrainStep ==
    /\ tpc = "for"
    /\ NextStep(step) <= args.train_batches
    /\ step' = NextStep(step)
    /\ IF tloader.left > 0
       THEN /\ tloader' = [tloader EXCEPT !.left = @ - 1]
            /\ pulled' = [pulled EXCEPT !.train = @ + 1]
            /\ graphed' = [graphed EXCEPT !.train = @ + 1]
            /\ IF EvalInLoop(step', args.eval_interval)
               THEN tpc' = "call_eval" /\ ret' = "for"
               ELSE tpc' = "for" /\ UNCHANGED ret
            /\ UNCHANGED exc
       ELSE /\ exc' = tloader.end
            /\ tpc' = "exit"
            /\ UNCHANGED <<tloader, pulled, graphed, ret>>
    /\ UNCHANGED <<genvars, run, prev, bad, loadervars>>
    /\ UNCHANGED <<args, rank, eloader, num_eval_batches, labels, evals,
                   tlog, elog>>

\* line 666: the range is exhausted, the with block is left
TrainLoopEnd ==
    /\ tpc = "for"
    /\ NextStep(step) > args.train_batches
    /\ tpc' = "exit"
    /\ UNCHANGED <<genvars, run, prev, bad, loadervars>>
    /\ UNCHANGED <<args, rank, tloader, eloader, ret, exc, step,
                   num_eval_batches, labels, evals, pulled, graphed, tlog,
                   elog>>

\* lines 130-132: __exit__ of the training loader, on leaving the with
\* block normally or by an exception, which then leaves train
TrainExit ==
    /\ tpc = "exit"
    /\ tlog' = tlog \o ExitCalls
    /\ tpc' = IF exc = "none" THEN "after" ELSE "raised"
    /\ UNCHANGED <<genvars, run, prev, bad, loadervars>>
    /\ UNCHANGED <<args, rank, tloader, eloader, ret, exc, step,
                   num_eval_batches, labels, evals, pulled, graphed, elog>>

\* lines 687-690: after the with block
TrainAfter ==
    /\ tpc = "after"
    /\ IF EvalAfterLoop(step, args.eval_interval)
       THEN tpc' = "call_eval" /\ ret' = "returned"
       ELSE tpc' = "returned" /\ UNCHANGED ret
    /\ UNCHANGED <<genvars, run, prev, bad, loadervars>>
    /\ UNCHANGED <<args, rank, tloader, eloader, exc, step,
                   num_eval_batches, labels, evals, pulled, graphed, tlog,
                   elog>>

\* lines 681/688 and 702-711: eval(args, eval_graph, step) is called and
\* returns at once, or opens the loader of the test data
EvalCall ==
    /\ tpc = "call_eval"
    /\ evals' = Append(evals, step)
    /\ IF args.eval_batches <= 0
       THEN /\ tpc' = ret
            /\ UNCHANGED <<eloader, num_eval_batches, labels, elog>>
       ELSE /\ elog' = <<"enter">>
            /\ eloader' = [eloader EXCEPT !.left = eloader.n]
            /\ num_eval_batches' = 0
            /\ labels' = 0
            /\ tpc' = "eval_for"
    /\ UNCHANGED <<genvars, run, prev, bad, loadervars>>
    /\ UNCHANGED <<args, rank, tloader, ret, exc, step, pulled, graphed,
                   tlog>>

\* lines 712-719: one iteration of the for statement of eval
EvalStep ==
    /\ tpc = "eval_for"
    /\ IF eloader.left > 0
       THEN /\ eloader' = [eloader EXCEPT !.left = @ - 1]
            /\ pulled' = [pulled EXCEPT !.eval = @ + 1]
            /\ num_eval_batches' = num_eval_batches + 1
            /\ IF num_eval_batches' > args.eval_batches
               THEN /\ tpc' = "eval_exit"
                    /\ UNCHANGED <<graphed, labels>>
               ELSE /\ graphed' = [graphed EXCEPT !.eval = @ + 1]
                    /\ labels' = labels + 1
                    /\ tpc' = "eval_for"
            /\ UNCHANGED exc
       ELSE /\ tpc' = "eval_exit"
            /\ exc' = IF eloader.end = "StopIteration" THEN exc
                      ELSE eloader.end
            /\ UNCHANGED <<eloader, pulled, num_eval_batches, graphed,
                           labels>>
    /\ UNCHANGED <<genvars, run, prev, bad, loadervars>>
    /\ UNCHANGED <<args, rank, tloader, ret, step, evals, tlog, elog>>

\* lines 130-132: __exit__ of the loader of eval, on leaving its with
\* block by the end of the loop, by break or by an exception
EvalExit ==
    /\ tpc = "eval_exit"
    /\ elog' = elog \o ExitCalls
    /\ tpc' = IF exc = "none" THEN "eval_auc" ELSE Propagate
    /\ UNCHANGED <<genvars, run, prev, bad, loadervars>>
    /\ UNCHANGED <<args, rank, tloader, eloader, ret, exc, step,
                   num_eval_batches, labels, evals, pulled, graphed, tlog>>

\* lines 721-743: rank 0 concatenates the labels, which raises ValueError
\* on an empty list; eval returns to its caller
EvalAuc ==
    /\ tpc = "eval_auc"
    /\ IF rank = 0 /\ labels = 0
       THEN exc' = "ValueError" /\ tpc' = Propagate
       ELSE tpc' = ret /\ UNCHANGED exc
    /\ UNCHANGED <<genvars, run, prev, bad, loadervars>>
    /\ UNCHANGED <<args, rank, tloader, eloader, ret, step,
                   num_eval_batches, labels, evals, pulled, graphed, tlog,
                   elog>>

NextTrain ==
    \/ TrainEnter
    \/ TrainStep
    \/ TrainLoopEnd
    \/ TrainExit
    \/ TrainAfter
    \/ EvalCall
    \/ EvalStep
    \/ EvalExit
    \/ EvalAuc

SpecTrain == InitTrain /\ [][NextTrain]_vars

(* ------------------- the stream, as the reader gave it --------------- *)
RECURSIVE TotalRows(_)
\* number of rows of row groups with the row counts ls
TotalRows(ls) == IF ls = << >> THEN 0 ELSE Head(ls) + TotalRows(Tail(ls))

RECURSIVE RowsFrom(_, _)
\* the rows <<g, r>> of row groups g, g+1, ... with row counts ls, in
\* arrival order
RowsFrom(g, ls) ==
    IF ls = << >> THEN << >>
    ELSE [r \in 1 .. Head(ls) |-> <<g, r>>] \o RowsFrom(g + 1, Tail(ls))

\* all rows delivered so far
InputRows == RowsFrom(1, lens)

\* the number of feature columns of the schema
num_feature_columns == num_fields - 1

\* the batch made of the rows rs (a sequence of <<g, r>>): their labels,
\* and their feature values as an array of shape [Len(rs), 39]
BatchOfRows(rs) ==
    [label    |-> [i \in 1 .. Len(rs) |-> <<rs[i][1], rs[i][2], 1>>],
     features |-> [shape |-> <<Len(rs), num_feature_columns>>,
                   data  |-> [i \in 1 .. Len(rs) |->
                                [j \in 1 .. num_feature_columns |->
                                    <<rs[i][1], rs[i][2], j + 1>>]]]]

\* the k-th batch of batch_size rows of the stream
ExpectedBatch(k) ==
    BatchOfRows(SubSeq(InputRows, (k - 1) * batch_size + 1, k * batch_size))

\* the generator is between two row groups or has returned
Settled == pc \in {"pull", "done"}

\* the row group pulled last and its row count
LastGroup == Len(lens)
LastLen == lens[Len(lens)]

\* the rows held by the tail buffer, as rows <<g, r>>: the last
\* atPull.tail rows delivered before the last row group
RowsBefore == RowsFrom(1, SubSeq(lens, 1, Len(lens) - 1))

\* row i of an emitted batch as the consumer reads it: label[i] followed
\* by features[i, :]
BatchRow(b, i) ==
    <<b.label[i]>> \o
    (IF i <= b.features.shape[1] THEN b.features.data[i] ELSE << >>)

\* row <<g, r>> of the stream, all columns
StreamRow(gr) == [c \in fields |-> <<gr[1], gr[2], c>>]

(* ------------------------------ claims ------------------------------- *)

\* C1: when the stream has ended and its total row count is a multiple of
\* batch_size, the batches emitted are exactly total_rows / batch_size
\* batches of batch_size rows whose concatenation is the concatenation of
\* the row groups, label column and every feature column.
C1_ExactMultipleRoundTrip ==
    (pc = "done" /\ TotalRows(lens) % batch_size = 0)
        => emitted = [k \in 1 .. (TotalRows(lens) \div batch_size) |->
                         ExpectedBatch(k)]

\* C2: the rows of the emitted batches, read in emission order, are the
\* rows of the stream in arrival order, each once; when the stream has
\* ended only the last N mod batch_size rows are in no batch.
C2_EveryRowInOneBatch ==
    /\ \A k \in 1 .. Len(emitted) :
          /\ k * batch_size <= TotalRows(lens)
          /\ \A i \in 1 .. Len(emitted[k].label) :
                /\ i <= batch_size
                /\ BatchRow(emitted[k], i) =
                       StreamRow(InputRows[(k - 1) * batch_size + i])
    /\ pc = "done" => Len(emitted) = TotalRows(lens) \div batch_size

\* C3: every emitted batch has a label array of batch_size entries and a
\* feature array of shape [batch_size, num_feature_columns].
C3_BatchShape ==
    \A k \in 1 .. Len(emitted) :
        /\ Len(emitted[k].label) = batch_size
        /\ emitted[k].features.shape = <<batch_size, num_feature_columns>>

\* C4: in every emitted batch, label[i] and features[i, j] come from one
\* and the same input row, features[i, j] being its j-th feature value.
C4_ColumnAlignment ==
    \A k \in 1 .. Len(emitted) :
        \A i \in 1 .. batch_size : \A j \in 1 .. num_feature_columns :
            /\ i <= Len(emitted[k].label)
            /\ i <= emitted[k].features.shape[1]
            /\ j <= emitted[k].features.shape[2]
            /\ emitted[k].label[i][3] = 1
            /\ emitted[k].features.data[i][j] =
                  <<emitted[k].label[i][1], emitted[k].label[i][2], j + 1>>

\* C5: the tail buffer is absent or holds fewer than batch_size rows, in
\* every column.
C5_TailShorterThanBatch ==
    \/ tail = None
    \/ /\ Len(tail) = num_fields
       /\ \A i \in 1 .. num_fields : Len(tail[i]) < batch_size

\* a tail that stayed short through an empty or short row group
C5_Witness ==
    /\ pc = "pull"
    /\ Len(lens) >= 2
    /\ atPull.tail > 0
    /\ tail # None
    /\ Len(tail[1]) = atPull.tail + LastLen
    /\ \E g \in 1 .. Len(lens) : lens[g] = 0

\* C6: a row group that completes a tail of t rows gives the batch of the
\* t tail rows followed by its first batch_size - t rows, then the full
\* batches sliced from cursor batch_size - t on, and leaves the rows after
\* them as the new tail; batch_size 4 with row groups of 6 and 5 rows
\* gives g1 rows 1-4, then g1 rows 5-6 with g2 rows 1-2, and the tail g2
\* rows 3-5.
C6_TailCompletion ==
    /\ (/\ Settled
        /\ Len(lens) >= 1
        /\ atPull.tail > 0
        /\ LastLen >= batch_size - atPull.tail)
        => LET t == atPull.tail
               first == batch_size - t
               full == (LastLen - first) \div batch_size
               rest == first + full * batch_size
               grouprows == [r \in 1 .. LastLen |-> <<LastGroup, r>>]
           IN  /\ Len(emitted) = atPull.emitted + 1 + full
               /\ emitted[atPull.emitted + 1] =
                     BatchOfRows(SubSeq(RowsBefore, Len(RowsBefore) - t + 1,
                                        Len(RowsBefore))
                                 \o SubSeq(grouprows, 1, first))
               /\ \A m \in 1 .. full :
                     emitted[atPull.emitted + 1 + m] =
                         BatchOfRows(SubSeq(grouprows,
                                            first + (m - 1) * batch_size + 1,
                                            first + m * batch_size))
               /\ tail = IF rest = LastLen THEN None
                         ELSE [c \in fields |->
                                  [r \in 1 .. (LastLen - rest) |->
                                      <<LastGroup, rest + r, c>>]]
    /\ (Settled /\ batch_size = 4 /\ lens = <<6, 5>>)
        => /\ emitted = <<BatchOfRows(<<<<1, 1>>, <<1, 2>>, <<1, 3>>, <<1, 4>>>>),
                         BatchOfRows(<<<<1, 5>>, <<1, 6>>, <<2, 1>>, <<2, 2>>>>)>>
           /\ tail = [c \in fields |-> [r \in 1 .. 3 |-> <<2, r + 2, c>>]]

\* C7: a single row group of exactly batch_size rows, pulled with no tail,
\* gives exactly one batch, holding all its rows with all feature columns,
\* and leaves no tail.
C7_GroupOfBatchSize ==
    (Settled /\ Len(lens) = 1 /\ lens[1] = batch_size)
        => /\ emitted = <<BatchOfRows([r \in 1 .. batch_size |-> <<1, r>>])>>
           /\ tail = None

\* C8: a non-empty row group of fewer than batch_size rows, pulled with
\* no tail, gives no batch and becomes the tail, one array per column.
C8_ShortGroupBecomesTail ==
    (/\ Settled
     /\ Len(lens) >= 1
     /\ atPull.tail = 0
     /\ LastLen > 0
     /\ LastLen < batch_size)
        => /\ Len(emitted) = atPull.emitted
           /\ tail = RowGroup(LastGroup, LastLen)

\* a short row group that arrived after earlier batches and became the tail
C8_Witness ==
    /\ pc = "pull"
    /\ Len(lens) >= 2
    /\ atPull.tail = 0
    /\ atPull.emitted > 0
    /\ LastLen > 0
    /\ LastLen < batch_size
    /\ tail # None

\* C9: on every stream the generator raises no error, and when the reader
\* is exhausted it returns without having emitted a batch for the leftover
\* tail.
C9_NoErrorTailDropped ==
    /\ pc # "error"
    /\ error = "none"
    /\ pc = "done" =>
          /\ Len(emitted) * batch_size <= TotalRows(lens)
          /\ \A k \in 1 .. Len(emitted) : Len(emitted[k].label) = batch_size

\* C10: while the reader has delivered no row group the generator has
\* emitted no batch and raised no error, and it returns when the reader is
\* exhausted.
C10_EmptyStream ==
    lens = << >> =>
        /\ emitted = << >>
        /\ error = "none"
        /\ pc \in {"pull", "done"}

\* the generator has returned on a reader that delivered nothing
C10_Witness == pc = "done" /\ lens = << >>

\* the columns of the rows rs (a sequence of <<g, r>>), one array per field
ColumnsOfRows(rs) ==
    [c \in fields |-> [i \in 1 .. Len(rs) |-> <<rs[i][1], rs[i][2], c>>]]

\* C16: a row group too short to complete the tail gives no batch and is
\* appended whole to the tail, column by column; after any number of such
\* row groups the tail holds the rows of all of them after the old tail.
C16_ShortGroupAppends ==
    /\ [](( /\ Settled
            /\ Len(lens) >= 1
            /\ atPull.tail > 0
            /\ LastLen < batch_size - atPull.tail)
          => /\ Len(emitted) = atPull.emitted
             /\ tail = ColumnsOfRows(
                          SubSeq(InputRows,
                                 Len(InputRows) - (atPull.tail + LastLen) + 1,
                                 Len(InputRows))))
    /\ [][( /\ pc = "pull"
            /\ tail # None
            /\ lens' # lens
            /\ Len(rglist'[1]) < batch_size - Len(tail[1]))
          => /\ emitted' = emitted
             /\ pc' = "pull"
             /\ tail' = [i \in 1 .. num_fields |-> tail[i] \o rglist'[i]]]_vars

\* a tail grown by two short row groups in a row
C16_Witness ==
    /\ pc = "pull"
    /\ Len(lens) = 3
    /\ \A g \in 1 .. 3 : lens[g] > 0
    /\ tail # None
    /\ Len(tail[1]) = lens[1] + lens[2] + lens[3]
    /\ emitted = << >>

\* C18: whenever the generator has fully processed the row groups pulled
\* so far, R rows in all, it has emitted R div batch_size batches and the
\* tail holds R mod batch_size rows, being None exactly when that is 0.
C18_CountAndRemainder ==
    Settled =>
        /\ Len(emitted) = TotalRows(lens) \div batch_size
        /\ (tail = None) <=> (TotalRows(lens) % batch_size = 0)
        /\ tail # None =>
              \A i \in 1 .. num_fields :
                  Len(tail[i]) = TotalRows(lens) % batch_size

\* three row groups processed, batches emitted and a tail left
C18_Witness ==
    /\ Settled
    /\ Len(lens) = 3
    /\ Len(emitted) >= 2
    /\ tail # None
    /\ atPull.tail > 0

\* C11: a second, fresh generator over the same row groups yields the
\* batches the first one yielded, in the same order, and ends the same
\* way; nothing of the first run is left in it.
C11_SameStreamSameBatches ==
    run = 2 =>
        /\ Len(emitted) <= Len(prev.emitted)
        /\ emitted = SubSeq(prev.emitted, 1, Len(emitted))
        /\ Len(lens) <= Len(prev.lens)
        /\ pc \in {"done", "error"} =>
              /\ emitted = prev.emitted
              /\ error = prev.error
              /\ lens = prev.lens

\* the second generator has finished a stream on which the first one
\* yielded batches and was left with a tail
C11_Witness ==
    /\ run = 2
    /\ pc = "done"
    /\ Len(prev.lens) >= 2
    /\ Len(emitted) >= 2
    /\ tail # None

\* C15: a row group whose columns differ in length makes the generator
\* raise: no batch is yielded once it has been pulled, and the generator
\* never gets past it to the next row group or to its end.
C15_MalformedGroupIsFatal ==
    bad # 0 =>
        /\ Len(emitted) = atPull.emitted
        /\ ~Settled
        /\ pc = "error" => error # "none"

\* C13: make_criteo_dataloader called with a batch size that is not a
\* multiple of the world size raises, so that no PNNDataReader is made, and
\* the per-process batch size of a reader it makes is never a truncated
\* quotient.
C13_UnevenBatchSizeRaises ==
    call.fn = "make_criteo_dataloader" =>
        /\ call.batch_size % call.world_size # 0 => dl.state = "none"
        /\ dl.state # "none" =>
              dl.batch_size * call.world_size = call.batch_size

\* C14: no PNNDataReader object exists whose shard index is outside
\* [0, shard_count): its construction fails.
C14_BadShardFailsAtConstruction ==
    dl.state # "none" => ShardInRange(dl)

\* control is inside the with block of train, of eval
InTrainWith ==
    \/ tpc \in {"for", "exit"}
    \/ tpc \in {"call_eval", "eval_for", "eval_exit", "eval_auc"} /\ ret = "for"
InEvalWith == tpc \in {"eval_for", "eval_exit"}

\* C12: the reader of a loader is running exactly while control is inside
\* the with block that uses it; however the block is left (end of the
\* loop, break, exception) the calls made on it are enter, stop, join, in
\* that order.
C12_ReaderReleased ==
    /\ tlog \in {<< >>, <<"enter">>, <<"enter", "stop", "join">>}
    /\ elog \in {<< >>, <<"enter">>, <<"enter", "stop", "join">>}
    /\ (tlog = <<"enter">>) <=> InTrainWith
    /\ (elog = <<"enter">>) <=> InEvalWith
    /\ (tlog = << >>) <=> (tpc = "start")

\* train left by an exception after an eval that abandoned its loader
\* early: both readers stopped and joined
C12_Witness ==
    /\ tpc = "raised"
    /\ exc # "none"
    /\ pulled.eval > graphed.eval
    /\ tlog = <<"enter", "stop", "join">>
    /\ elog = <<"enter", "stop", "join">>

\* C17: every batch taken from a loader is run through the graph, by train
\* and by eval, and a train that returns has taken train_batches batches.
C17_OneStepPerPulledBatch ==
    /\ pulled.train = graphed.train
    /\ pulled.eval = graphed.eval
    /\ tpc = "returned" => pulled.train = args.train_batches

\* the steps eval is to be called with by a train of n steps evaluating
\* every k steps
EvalSchedule(n, k) ==
    [i \in 1 .. (n \div k) |-> i * k] \o (IF n % k # 0 THEN <<n>> ELSE << >>)

\* C19: eval is never called when eval_interval <= 0 and never twice with
\* the same step; a train with eval_interval > 0 and train_batches >= 1
\* that returns has called it once at every multiple of eval_interval and
\* once more, after the loop, exactly when train_batches is not such a
\* multiple, so the last call is for step train_batches.
C19_EvalSchedule ==
    /\ args.eval_interval <= 0 => evals = << >>
    /\ \A i \in 1 .. (Len(evals) - 1) : evals[i] < evals[i + 1]
    /\ (tpc = "returned" /\ args.eval_interval > 0 /\ args.train_batches >= 1)
          => /\ evals = EvalSchedule(args.train_batches, args.eval_interval)
             /\ evals[Len(evals)] = args.train_batches

\* a train of 3 steps evaluating every 2 steps has returned
C19_Witness ==
    /\ tpc = "returned"
    /\ args.train_batches = 3
    /\ args.eval_interval = 2
    /\ evals = <<2, 3>>
====
